---- MODULE Spec2Model ----
(***************************************************************************)
(* chronogrog: the interval-based resource tracker (src/src/resources.rs)  *)
(* and the schedule expansion of ProductionSchedule (src/src/lib.rs).      *)
(*                                                                         *)
(* A NaiveDateTime carries fractions of a second: instants are counted in  *)
(* ticks of half a second from an arbitrary origin, and a chrono::Duration *)
(* is a number of ticks.  A NaivePeriod is the record [start, end].  The   *)
(* informational fields of a Resource (name, capacity_str) are never read  *)
(* by the tracker and are left out.                                        *)
(***************************************************************************)
EXTENDS Integers, Sequences, FiniteSets, TLC

\* Bounds of the model.
MaxTime == 2
MaxDur == 1
MaxAllocs == 2

\* The ids handed to Resource::new.
Ids == {1, 2}

\* The resolution of the clock: ticks in one second.
TicksPerSecond == 2

\* Duration::seconds(1)
OneSecond == TicksPerSecond

\* NaiveDateTime::timestamp: whole seconds, the fraction dropped.
timestamp(t) == t \div TicksPerSecond
Instants == 0..MaxTime
Durations == 0..MaxDur

\* ResourceType values: a known category <<tag>> or <<"Other", label>>.
Fermentor == <<"Fermentor">>
Keg == <<"Keg">>
ResourceTypes == {Fermentor, Keg}

\* The remaining variants of ResourceType; the tracker model uses the two above.
Kettle == <<"Kettle">>
MashTun == <<"MashTun">>
LauterTun == <<"LauterTun">>
Kegerator == <<"Kegerator">>
GasTank == <<"GasTank">>
Other(label) == <<"Other", label>>

\* impl From<&str> for ResourceType: an exact, case-sensitive match.
ResourceType_from(res) ==
    CASE res = "fermentor" -> Fermentor
      [] res = "kettle" -> Kettle
      [] res = "mashtun" -> MashTun
      [] res = "lautertun" -> LauterTun
      [] res = "keg" -> Keg
      [] res = "kegerator" -> Kegerator
      [] res = "gastank" -> GasTank
      [] OTHER -> Other(res)

\* A serializer that writes the gas tank with an underscore.
serialize_gas_tank(t) ==
    CASE t = Fermentor -> "fermentor"
      [] t = Kettle -> "kettle"
      [] t = MashTun -> "mashtun"
      [] t = LauterTun -> "lautertun"
      [] t = Keg -> "keg"
      [] t = Kegerator -> "kegerator"
      [] t = GasTank -> "gas_tank"
      [] OTHER -> t[2]

\* impl Serialize for ResourceType: the tag of a named variant, the carried
\* string of Other.
serialize(t) ==
    CASE t = Fermentor -> "fermentor"
      [] t = Kettle -> "kettle"
      [] t = MashTun -> "mashtun"
      [] t = LauterTun -> "lautertun"
      [] t = Keg -> "keg"
      [] t = Kegerator -> "kegerator"
      [] t = GasTank -> "gastank"
      [] OTHER -> t[2]

\* Results handed back to the caller (Option<_>, bool, or an abort).
Some(v) == [kind |-> "Some", val |-> v]
NoneR == [kind |-> "None", val |-> 0]
PanicR == [kind |-> "Panic", val |-> 0]
BoolR(b) == [kind |-> IF b THEN "true" ELSE "false", val |-> 0]

(***************************************************************************)
(* NaivePeriod (crate chrono_period): closed ranges.                       *)
(***************************************************************************)
from_start_duration(start, duration) == [start |-> start, end |-> start + duration]

duration(period) == period.end - period.start

intersects_with(p, q) == p.start <= q.end /\ q.start <= p.end

Periods == {from_start_duration(s, d) : s \in Instants, d \in Durations}

(***************************************************************************)
(* Resource                                                                *)
(***************************************************************************)
ResourceNew(id, resource_type) ==
    [id |-> id, resource_type |-> resource_type, allocated_periods |-> <<>>]

is_allocated_halfopen(res, start, dur) ==
    LET intersection_period == from_start_duration(start, dur)
    IN  \E i \in 1..Len(res.allocated_periods) :
            /\ res.allocated_periods[i].start < intersection_period.end
            /\ intersection_period.start < res.allocated_periods[i].end

is_allocated_end_exclusive(res, start, dur) ==
    LET intersection_period == from_start_duration(start, dur)
    IN  \E i \in 1..Len(res.allocated_periods) :
            /\ res.allocated_periods[i].start <= intersection_period.end
            /\ intersection_period.start < res.allocated_periods[i].end

is_allocated_over_start_duration(res, start, dur) ==
    LET intersection_period == from_start_duration(start, dur)
    IN  \E i \in 1..Len(res.allocated_periods) :
            intersects_with(res.allocated_periods[i], intersection_period)

is_allocated_over_period(res, period) ==
    is_allocated_over_start_duration(res, period.start, duration(period))

\* Vec::sort_by on the start instant: a stable sort.
RECURSIVE InsertStable(_, _)
InsertStable(sorted, p) ==
    IF sorted = <<>> THEN <<p>>
    ELSE IF sorted[Len(sorted)].start <= p.start THEN Append(sorted, p)
    ELSE Append(InsertStable(SubSeq(sorted, 1, Len(sorted) - 1), p), sorted[Len(sorted)])

sort_not(periods) == periods

RECURSIVE sort_by_start(_)
sort_by_start(periods) ==
    IF periods = <<>> THEN <<>>
    ELSE InsertStable(sort_by_start(SubSeq(periods, 1, Len(periods) - 1)),
                      periods[Len(periods)])

\* The pair (returned Option, the resource afterwards).
allocate_unchecked(res, start, dur) ==
    [ok |-> TRUE,
     res |-> [res EXCEPT !.allocated_periods =
                 sort_by_start(Append(@, from_start_duration(start, dur)))]]

allocate_forgetful(res, start, dur) ==
    IF is_allocated_over_start_duration(res, start, dur)
    THEN [ok |-> FALSE, res |-> res]
    ELSE [ok |-> TRUE,
          res |-> [res EXCEPT !.allocated_periods = <<from_start_duration(start, dur)>>]]

allocate_over_start_duration(res, start, dur) ==
    IF is_allocated_over_start_duration(res, start, dur)
    THEN [ok |-> FALSE, res |-> res]
    ELSE [ok |-> TRUE,
          res |-> [res EXCEPT !.allocated_periods =
                      sort_by_start(Append(@, from_start_duration(start, dur)))]]

allocate_over_period(res, period) ==
    allocate_over_start_duration(res, period.start, duration(period))

\* A filter that also discards an interval ending at the desired start.
free_candidates_strict(res, period) ==
    SelectSeq(res.allocated_periods,
              LAMBDA needle :
                  /\ ~(timestamp(needle.end) <= timestamp(period.start))
                  /\ ~is_allocated_over_start_duration(res, needle.end + OneSecond,
                                                       duration(period)))

\* The filter of get_earliest_free_date_for_period, in storage order.
free_candidates(res, period) ==
    SelectSeq(res.allocated_periods,
              LAMBDA needle :
                  /\ ~(timestamp(needle.end) < timestamp(period.start))
                  /\ ~is_allocated_over_start_duration(res, needle.end + OneSecond,
                                                       duration(period)))

\* The scan without the test of the desired start itself.
get_earliest_after_an_interval(res, period) ==
    LET c == free_candidates(res, period)
    IN  IF c = <<>> THEN PanicR ELSE Some(c[1].end + OneSecond)

\* take(1).next().unwrap(): the first candidate, or an abort when there is none.
get_earliest_free_date_for_period(res, period) ==
    IF ~is_allocated_over_start_duration(res, period.start, duration(period))
    THEN Some(period.start)
    ELSE LET c == free_candidates(res, period)
         IN  IF c = <<>> THEN PanicR ELSE Some(c[1].end + OneSecond)

(***************************************************************************)
(* ResourceTracker: `resources` is the HashMap<usize, Resource>, a         *)
(* function from the tracked ids.                                          *)
(***************************************************************************)
VARIABLES resources, loose, last,
          status, timeline_start, declared, recipe_specs, recipes, last_id_used,
          duration_input, converted, init_calls,
          phase_instance, added, serde, rendered

trackerVars == <<resources, loose, last>>
schedVars == <<status, timeline_start, declared, recipe_specs, recipes, last_id_used>>
modelVars == <<phase_instance, added, serde, rendered>>
utilVars == <<duration_input, converted, init_calls, modelVars>>
vars == <<resources, loose, last,
          status, timeline_start, declared, recipe_specs, recipes, last_id_used,
          duration_input, converted, init_calls,
          phase_instance, added, serde, rendered>>

MinOf(S) == CHOOSE x \in S : \A y \in S : x <= y
MaxOf(S) == CHOOSE x \in S : \A y \in S : x >= y

OfType(map, resource_type) ==
    {k \in DOMAIN map : map[k].resource_type = resource_type}

track_keep_existing(map, res) ==
    IF res.id \in DOMAIN map THEN map
    ELSE [k \in DOMAIN map \cup {res.id} |-> IF k = res.id THEN res ELSE map[k]]

track_cleared(map, res) ==
    [k \in DOMAIN map \cup {res.id} |->
        IF k = res.id THEN [res EXCEPT !.allocated_periods = <<>>] ELSE map[k]]

\* HashMap::insert(res.id, res)
track_resource(map, res) ==
    [k \in DOMAIN map \cup {res.id} |-> IF k = res.id THEN res ELSE map[k]]

is_free_any_type(map, resource_type, period) ==
    \E k \in DOMAIN map : ~is_allocated_over_period(map[k], period)

is_free_universal(map, resource_type, period) ==
    /\ OfType(map, resource_type) /= {}
    /\ \A k \in OfType(map, resource_type) : ~is_allocated_over_period(map[k], period)

is_resource_of_type_free_for_period(map, resource_type, period) ==
    \E k \in OfType(map, resource_type) : ~is_allocated_over_period(map[k], period)

next_available_any(map, resource_type, period) ==
    LET free_dates == {get_earliest_free_date_for_period(map[k], period) :
                          k \in OfType(map, resource_type)}
    IN  IF PanicR \in free_dates THEN PanicR
        ELSE IF free_dates = {} THEN NoneR
        ELSE Some(MaxOf({f.val : f \in free_dates}))

\* The desired start itself whenever a resource of the type is tracked.
next_available_at_start(map, resource_type, period) ==
    IF OfType(map, resource_type) = {} THEN NoneR ELSE Some(period.start)

\* collect, sort ascending, take element 0; an abort inside the map aborts the call.
get_next_available_resource_date_for_type_over_period(map, resource_type, period) ==
    LET free_dates == {get_earliest_free_date_for_period(map[k], period) :
                          k \in OfType(map, resource_type)}
    IN  IF PanicR \in free_dates THEN PanicR
        ELSE IF free_dates = {} THEN NoneR
        ELSE Some(MinOf({f.val : f \in free_dates}))

\* HashMap::iter_mut: the keys of the map in an order the build chooses.
iter_orders(map) ==
    {o \in [1..Cardinality(DOMAIN map) -> DOMAIN map] :
        \A i, j \in DOMAIN o : i /= j => o[i] /= o[j]}

RECURSIVE InsertKey(_, _)
InsertKey(sorted, k) ==
    IF sorted = <<>> THEN <<k>>
    ELSE IF sorted[Len(sorted)] <= k THEN Append(sorted, k)
    ELSE Append(InsertKey(SubSeq(sorted, 1, Len(sorted) - 1), k), sorted[Len(sorted)])

\* resources.sort_by(|a, b| a.0.cmp(b.0))
RECURSIVE sort_by_key(_)
sort_by_key(entries) ==
    IF entries = <<>> THEN <<>>
    ELSE InsertKey(sort_by_key(SubSeq(entries, 1, Len(entries) - 1)),
                   entries[Len(entries)])

select_last_free(entries, map, resource_type, period) ==
    LET S == {k \in OfType(map, resource_type) : ~is_allocated_over_period(map[k], period)}
    IN  IF S = {} THEN NoneR ELSE Some(MaxOf(S))

select_unsorted(entries, map, resource_type, period) ==
    LET hits == SelectSeq(entries,
                          LAMBDA k : /\ map[k].resource_type = resource_type
                                     /\ ~is_allocated_over_period(map[k], period))
    IN  IF hits = <<>> THEN NoneR ELSE Some(hits[1])

\* next() taken twice when there is a second hit.
select_second_free(entries, map, resource_type, period) ==
    LET hits == SelectSeq(sort_by_key(entries),
                          LAMBDA k : /\ map[k].resource_type = resource_type
                                     /\ ~is_allocated_over_period(map[k], period))
    IN  IF hits = <<>> THEN NoneR
        ELSE IF Len(hits) >= 2 THEN Some(hits[2]) ELSE Some(hits[1])

\* The entries, collected in iteration order, sorted by key, filtered by type
\* and freedom, then next().
select_first_free(entries, map, resource_type, period) ==
    LET hits == SelectSeq(sort_by_key(entries),
                          LAMBDA k : /\ map[k].resource_type = resource_type
                                     /\ ~is_allocated_over_period(map[k], period))
    IN  IF hits = <<>> THEN NoneR ELSE Some(hits[1])

\* An allocation made on every free resource of the type, the first returned.
allocate_on_every_free(entries, map, resource_type, period) ==
    LET sel == select_first_free(entries, map, resource_type, period)
    IN  IF sel = NoneR THEN [ret |-> NoneR, map |-> map]
        ELSE [ret |-> sel,
              map |-> [k \in DOMAIN map |->
                          IF map[k].resource_type = resource_type
                          THEN allocate_over_period(map[k], period).res
                          ELSE map[k]]]

\* The pair (returned Option<&Resource> as its id, the map afterwards); the
\* unwrap() of an empty selection aborts the call.
allocate_resource_of_type_for_period(entries, map, resource_type, period) ==
    IF ~is_resource_of_type_free_for_period(map, resource_type, period)
    THEN [ret |-> NoneR, map |-> map]
    ELSE LET sel == select_first_free(entries, map, resource_type, period)
         IN  IF sel = NoneR THEN [ret |-> PanicR, map |-> map]
             ELSE LET r == allocate_over_period(map[sel.val], period)
                  IN  [ret |-> IF r.ok THEN sel ELSE NoneR,
                       map |-> [map EXCEPT ![sel.val] = r.res]]

(***************************************************************************)
(* The calls a client can make.  `loose` holds the Resource the client     *)
(* owns and has not yet moved into the tracker (a sequence of length 0 or  *)
(* 1); `last` is the latest call with its arguments and its result.        *)
(***************************************************************************)
RECURSIVE SumLen(_, _)
SumLen(map, S) ==
    IF S = {} THEN 0
    ELSE LET k == CHOOSE x \in S : TRUE
         IN  Len(map[k].allocated_periods) + SumLen(map, S \ {k})

TotalAllocs ==
    SumLen(resources, DOMAIN resources)
        + (IF loose = <<>> THEN 0 ELSE Len(loose[1].allocated_periods))

NoPeriod == [start |-> 0, end |-> 0]
Call(op, id, rtype, period, result) ==
    [op |-> op, id |-> id, rtype |-> rtype, period |-> period, result |-> result]

\* No call is in progress and no result is held by the client.
Idle == Call("idle", 0, <<>>, NoPeriod, NoneR)

\* The operation a variable records has not been called.
Pending == [kind |-> "Pending", val |-> 0]

\* ResourceTracker::new; no schedule is involved.
Init ==
    /\ resources = <<>>
    /\ loose = <<>>
    /\ last = Idle
    /\ status = "loaded"
    /\ timeline_start = "2020-01-01"
    /\ declared = <<>>
    /\ recipe_specs = <<>>
    /\ recipes = <<>>
    /\ last_id_used = 0
    /\ duration_input = <<>>
    /\ converted = Pending
    /\ init_calls = 0
    /\ phase_instance = Pending
    /\ added = <<>>
    /\ serde = Pending
    /\ rendered = Pending

\* Resource::new
New(id, rtype) ==
    /\ last = Idle
    /\ UNCHANGED <<schedVars, utilVars>>
    /\ loose' = <<ResourceNew(id, rtype)>>
    /\ last' = Call("new", id, rtype, NoPeriod, NoneR)
    /\ UNCHANGED resources

\* Resource::allocate_over_start_duration on the client's own resource
ResAllocate(start, dur) ==
    /\ last = Idle
    /\ UNCHANGED <<schedVars, utilVars>>
    /\ loose /= <<>>
    /\ TotalAllocs < MaxAllocs
    /\ LET r == allocate_over_start_duration(loose[1], start, dur)
       IN  /\ loose' = <<r.res>>
           /\ last' = Call("res_allocate", loose[1].id, loose[1].resource_type,
                           from_start_duration(start, dur), BoolR(r.ok))
    /\ UNCHANGED resources

\* Resource::is_allocated_over_period on the client's own resource
ResIsAllocated(period) ==
    /\ last = Idle
    /\ UNCHANGED <<schedVars, utilVars>>
    /\ loose /= <<>>
    /\ last' = Call("res_is_allocated", loose[1].id, loose[1].resource_type, period,
                    BoolR(is_allocated_over_period(loose[1], period)))
    /\ UNCHANGED <<resources, loose>>

\* Resource::get_earliest_free_date_for_period on the client's own resource
ResEarliest(period) ==
    /\ last = Idle
    /\ UNCHANGED <<schedVars, utilVars>>
    /\ loose /= <<>>
    /\ last' = Call("res_earliest", loose[1].id, loose[1].resource_type, period,
                    get_earliest_free_date_for_period(loose[1], period))
    /\ UNCHANGED <<resources, loose>>

\* ResourceTracker::track_resource: the resource is moved into the tracker
Track ==
    /\ last = Idle
    /\ UNCHANGED <<schedVars, utilVars>>
    /\ loose /= <<>>
    /\ resources' = track_resource(resources, loose[1])
    /\ loose' = <<>>
    /\ last' = Call("track", loose[1].id, loose[1].resource_type, NoPeriod, NoneR)

\* ResourceTracker::allocate_resource_of_type_for_period
Allocate(rtype, period) ==
    /\ last = Idle
    /\ UNCHANGED <<schedVars, utilVars>>
    /\ TotalAllocs < MaxAllocs
    /\ \E entries \in iter_orders(resources) :
           LET a == allocate_resource_of_type_for_period(entries, resources, rtype, period)
           IN  /\ resources' = a.map
               /\ last' = Call("allocate", 0, rtype, period, a.ret)
    /\ UNCHANGED loose

\* ResourceTracker::is_resource_of_type_free_for_period
IsFree(rtype, period) ==
    /\ last = Idle
    /\ UNCHANGED <<schedVars, utilVars>>
    /\ last' = Call("is_free", 0, rtype, period,
                    BoolR(is_resource_of_type_free_for_period(resources, rtype, period)))
    /\ UNCHANGED <<resources, loose>>

\* ResourceTracker::get_next_available_resource_date_for_type_over_period
NextAvailable(rtype, period) ==
    /\ last = Idle
    /\ UNCHANGED <<schedVars, utilVars>>
    /\ last' = Call("next_available", 0, rtype, period,
                    get_next_available_resource_date_for_type_over_period(
                        resources, rtype, period))
    /\ UNCHANGED <<resources, loose>>

\* The client is done with the value (or the borrow) a call handed back; only
\* then can it call the tracker or its resource again.
Release ==
    /\ last /= Idle
    /\ UNCHANGED <<schedVars, utilVars>>
    /\ last' = Idle
    /\ UNCHANGED <<resources, loose>>

Next ==
    \/ Release
    \/ \E id \in Ids, rtype \in ResourceTypes : New(id, rtype)
    \/ \E s \in Instants, d \in Durations : ResAllocate(s, d)
    \/ \E p \in Periods : ResIsAllocated(p)
    \/ \E p \in Periods : ResEarliest(p)
    \/ Track
    \/ \E rtype \in ResourceTypes, p \in Periods : Allocate(rtype, p)
    \/ \E rtype \in ResourceTypes, p \in Periods : IsFree(rtype, p)
    \/ \E rtype \in ResourceTypes, p \in Periods : NextAvailable(rtype, p)

Spec == Init /\ [][Next]_vars

(***************************************************************************)
(* util.rs: durations and dates.  A duration string is a sequence of       *)
(* characters.  Every instant and Duration of this part is parsed from a   *)
(* string of whole seconds, hours, days or weeks and is counted in         *)
(* seconds; none of them is handed to the tracker.                         *)
(***************************************************************************)
Hour == 3600
Day == 86400

Digits == {"0", "1", "2", "3", "4", "5", "6", "7", "8", "9"}

DigitVal(c) ==
    CASE c = "0" -> 0 [] c = "1" -> 1 [] c = "2" -> 2 [] c = "3" -> 3 [] c = "4" -> 4
      [] c = "5" -> 5 [] c = "6" -> 6 [] c = "7" -> 7 [] c = "8" -> 8 [] c = "9" -> 9

RECURSIVE digits_value(_)
digits_value(cs) ==
    IF cs = <<>> THEN 0
    ELSE 10 * digits_value(SubSeq(cs, 1, Len(cs) - 1)) + DigitVal(cs[Len(cs)])

parse_i64_lossy(cs) ==
    LET kept == SelectSeq(cs, LAMBDA c : c \in Digits)
    IN  IF kept = <<>> THEN [ok |-> FALSE, val |-> 0]
        ELSE [ok |-> TRUE, val |-> digits_value(kept)]

\* str::parse::<i64>: an optional sign, then one or more decimal digits.
parse_i64(cs) ==
    LET signed == cs /= <<>> /\ cs[1] \in {"+", "-"}
        body == IF signed THEN Tail(cs) ELSE cs
    IN  IF body = <<>> \/ \E i \in 1..Len(body) : body[i] \notin Digits
        THEN [ok |-> FALSE, val |-> 0]
        ELSE [ok |-> TRUE,
              val |-> IF signed /\ cs[1] = "-" THEN 0 - digits_value(body)
                      ELSE digits_value(body)]

convert_month_as_minutes(duration_string) ==
    IF duration_string = <<>> THEN NoneR
    ELSE LET last_character == duration_string[Len(duration_string)]
             is_last_character_digit == last_character \in Digits
             identifier == IF is_last_character_digit THEN "d" ELSE last_character
             characters == IF is_last_character_digit THEN duration_string
                           ELSE SubSeq(duration_string, 1, Len(duration_string) - 1)
             digits == parse_i64(characters)
         IN  IF ~digits.ok THEN PanicR
             ELSE CASE identifier = "m" -> Some(digits.val * 60)
                    [] identifier = "w" -> Some(digits.val * 7 * Day)
                    [] identifier = "d" -> Some(digits.val * Day)
                    [] identifier = "h" -> Some(digits.val * Hour)
                    [] OTHER -> NoneR

convert_soft_failure(duration_string) ==
    IF duration_string = <<>> THEN NoneR
    ELSE LET last_character == duration_string[Len(duration_string)]
             is_last_character_digit == last_character \in Digits
             identifier == IF is_last_character_digit THEN "d" ELSE last_character
             characters == IF is_last_character_digit THEN duration_string
                           ELSE SubSeq(duration_string, 1, Len(duration_string) - 1)
             digits == parse_i64(characters)
         IN  IF ~digits.ok THEN NoneR
             ELSE CASE identifier = "m" -> Some(digits.val * 30 * Day)
                    [] identifier = "w" -> Some(digits.val * 7 * Day)
                    [] identifier = "d" -> Some(digits.val * Day)
                    [] identifier = "h" -> Some(digits.val * Hour)
                    [] OTHER -> NoneR

convert_unknown_as_days(duration_string) ==
    IF duration_string = <<>> THEN NoneR
    ELSE LET last_character == duration_string[Len(duration_string)]
             is_last_character_digit == last_character \in Digits
             identifier == IF is_last_character_digit THEN "d" ELSE last_character
             characters == IF is_last_character_digit THEN duration_string
                           ELSE SubSeq(duration_string, 1, Len(duration_string) - 1)
             digits == parse_i64(characters)
         IN  IF ~digits.ok THEN PanicR
             ELSE CASE identifier = "m" -> Some(digits.val * 30 * Day)
                    [] identifier = "w" -> Some(digits.val * 7 * Day)
                    [] identifier = "h" -> Some(digits.val * Hour)
                    [] OTHER -> Some(digits.val * Day)

\* convert_string_to_duration: the last character is the unit unless it is a
\* digit, the rest must parse as an i64 or the unwrap aborts.
convert_string_to_duration(duration_string) ==
    IF duration_string = <<>> THEN NoneR
    ELSE LET last_character == duration_string[Len(duration_string)]
             is_last_character_digit == last_character \in Digits
             identifier == IF is_last_character_digit THEN "d" ELSE last_character
             characters == IF is_last_character_digit THEN duration_string
                           ELSE SubSeq(duration_string, 1, Len(duration_string) - 1)
             digits == parse_i64(characters)
         IN  IF ~digits.ok THEN PanicR
             ELSE CASE identifier = "m" -> Some(digits.val * 30 * Day)
                    [] identifier = "w" -> Some(digits.val * 7 * Day)
                    [] identifier = "d" -> Some(digits.val * Day)
                    [] identifier = "h" -> Some(digits.val * Hour)
                    [] OTHER -> NoneR

\* Seconds since 1970-01-01 00:00:00 of the date strings the model uses.
Date20200101 == 1577836800
DateTime20200102T06 == 1577944800

Ok(v) == [ok |-> TRUE, val |-> v]
Err == [ok |-> FALSE, val |-> 0]

\* "YYYY-MM-DD HH:MM:SS", or "YYYY-MM-DD" (midnight); anything else is an error.
get_naive_date_time_from_string(date_string) ==
    CASE date_string = "2020-01-01" -> Ok(Date20200101)
      [] date_string = "2020-01-02 06:00:00" -> Ok(DateTime20200102T06)
      [] OTHER -> Err

(***************************************************************************)
(* phases.rs, recipes.rs                                                   *)
(***************************************************************************)
SomeStr(x) == [some |-> TRUE, str |-> x]
NoStr == [some |-> FALSE, str |-> ""]

\* ProductionPhaseTemplate::default_duration
default_duration(template) == convert_string_to_duration(template.default_duration)

\* PhaseInstanceSpec::duration
spec_duration(phase_spec) ==
    IF phase_spec.duration_string = <<>> THEN NoneR
    ELSE convert_string_to_duration(phase_spec.duration_string)

\* RecipeSpec::start_date
start_date(recipe_spec) ==
    IF recipe_spec.start_string.some
    THEN get_naive_date_time_from_string(recipe_spec.start_string.str)
    ELSE Ok(0)

\* PhaseInstance::new
PhaseInstanceNew(id, description, dur, start) ==
    [id |-> id, description |-> description, duration |-> dur,
     dependencies |-> <<>>, start_date |-> start]

RECURSIVE InsertAscending(_, _)
InsertAscending(sorted, x) ==
    IF sorted = <<>> THEN <<x>>
    ELSE IF sorted[Len(sorted)] <= x THEN Append(sorted, x)
    ELSE Append(InsertAscending(SubSeq(sorted, 1, Len(sorted) - 1), x), sorted[Len(sorted)])

\* add_dependency without the sort and the presence test.
add_dependency_unsorted(phase, dep) ==
    [phase EXCEPT !.dependencies = Append(@, dep)]

\* PhaseInstance::add_dependency: push and sort unless already present.
add_dependency(phase, dep) ==
    IF \E i \in 1..Len(phase.dependencies) : phase.dependencies[i] = dep
    THEN phase
    ELSE [phase EXCEPT !.dependencies = InsertAscending(@, dep)]

(***************************************************************************)
(* lib.rs: ProductionSchedule                                              *)
(***************************************************************************)
\* The phase templates of the schedule (the shapes the tests use).
PhaseTemplates ==
    << [id |-> "planning", description |-> "Planning", default_duration |-> <<"1", "h">>],
       [id |-> "primary", description |-> "Primary Fermentation",
        default_duration |-> <<"1", "0", "d">>],
       [id |-> "erroneous", description |-> "Erroneous Phase",
        default_duration |-> <<"2", "5", "x">>] >>

\* ProductionSchedule::get_phase_by_id: the first template with that id.
get_phase_by_id(id) ==
    LET hits == {i \in 1..Len(PhaseTemplates) : PhaseTemplates[i].id = id}
    IN  IF hits = {} THEN [some |-> FALSE, template |-> PhaseTemplates[1]]
        ELSE [some |-> TRUE, template |-> PhaseTemplates[MinOf(hits)]]

\* ProductionSchedule::get_next_id: the counter afterwards is the id returned.
get_next_id_reuse(last_id) == IF last_id = 0 THEN 1 ELSE last_id

get_next_id_by_two(last_id) == last_id + 2

get_next_id(last_id) == last_id + 1

verify_overwrite_all(specs, timeline) ==
    [i \in 1..Len(specs) |-> [specs[i] EXCEPT !.start_string = SomeStr(timeline)]]

verify_nothing(specs, timeline) == specs

\* ProductionSchedule::verify_recipe_start_dates
verify_recipe_start_dates(specs, timeline) ==
    [i \in 1..Len(specs) |->
        IF specs[i].start_string.some THEN specs[i]
        ELSE [specs[i] EXCEPT !.start_string = SomeStr(timeline)]]

build_phase_lenient(id, next_spec, next_start_date) ==
    LET dur0 == spec_duration(next_spec)
        found == get_phase_by_id(next_spec.template)
        dur == IF dur0 = NoneR /\ found.some THEN default_duration(found.template)
               ELSE dur0
    IN  IF dur = PanicR THEN [ok |-> FALSE, phase |-> <<>>]
        ELSE [ok |-> TRUE,
              phase |-> PhaseInstanceNew(id,
                            IF next_spec.description = "" /\ found.some
                            THEN found.template.description
                            ELSE next_spec.description,
                            IF dur = NoneR THEN Day ELSE dur.val,
                            next_start_date)]

build_phase_template_first(id, next_spec, next_start_date) ==
    LET found == get_phase_by_id(next_spec.template)
        dur == IF found.some /\ default_duration(found.template).kind = "Some"
               THEN default_duration(found.template)
               ELSE spec_duration(next_spec)
    IN  IF ~found.some \/ dur = PanicR THEN [ok |-> FALSE, phase |-> <<>>]
        ELSE [ok |-> TRUE,
              phase |-> PhaseInstanceNew(id,
                            IF next_spec.description = ""
                            THEN found.template.description
                            ELSE next_spec.description,
                            IF dur = NoneR THEN Day ELSE dur.val,
                            next_start_date)]

\* One iteration of the forward loop of rebuild_phases_from_specs: the phase
\* built from next_spec, or an abort (an unwrap of None, or of a failed parse).
build_phase(id, next_spec, next_start_date) ==
    LET dur0 == spec_duration(next_spec)
        found == get_phase_by_id(next_spec.template)
    IN  IF dur0 = PanicR THEN [ok |-> FALSE, phase |-> <<>>]
        ELSE IF dur0 = NoneR /\ ~found.some THEN [ok |-> FALSE, phase |-> <<>>]
        ELSE LET dur == IF dur0 = NoneR THEN default_duration(found.template) ELSE dur0
             IN  IF dur = PanicR THEN [ok |-> FALSE, phase |-> <<>>]
                 ELSE IF next_spec.description = "" /\ ~found.some
                 THEN [ok |-> FALSE, phase |-> <<>>]
                 ELSE LET description == IF next_spec.description = ""
                                         THEN found.template.description
                                         ELSE next_spec.description
                          d == IF dur = NoneR THEN Day ELSE dur.val
                      IN  [ok |-> TRUE,
                           phase |-> PhaseInstanceNew(id, description, d, next_start_date)]

advance_not(next_start_date, dur) == next_start_date

\* next_start_date = next_start_date + duration
advance(next_start_date, dur) == next_start_date + dur

\* The forward loop from phase spec i on.  (The singleton binding evaluates the
\* phase once.)
RECURSIVE forward_pass(_, _, _, _, _)
forward_pass(phase_specs, i, last_id, next_start_date, phases) ==
    IF i > Len(phase_specs)
    THEN [ok |-> TRUE, last_id |-> last_id, phases |-> phases]
    ELSE CHOOSE result \in
             { IF ~b.ok
               THEN [ok |-> FALSE, last_id |-> b.id, phases |-> phases]
               ELSE forward_pass(phase_specs, i + 1, b.id,
                                 advance(next_start_date, b.phase.duration),
                                 Append(phases, b.phase)) :
               b \in { [id |-> get_next_id(last_id)] @@
                       build_phase(get_next_id(last_id), phase_specs[i],
                                   next_start_date) } } : TRUE

Reverse(seq) == [i \in 1..Len(seq) |-> seq[Len(seq) + 1 - i]]

backward_pass_predecessor(reversed, i, prev_phase_id, phases_new) ==
    [k \in 1..Len(reversed) |->
        IF k < Len(reversed) THEN add_dependency(reversed[k], reversed[k + 1].id)
        ELSE reversed[k]]

\* The backward loop over phases.iter().rev(), from position i of the reversed
\* list on; phases_new is in reversed order.
RECURSIVE backward_pass(_, _, _, _)
backward_pass(reversed, i, prev_phase_id, phases_new) ==
    IF i > Len(reversed) THEN phases_new
    ELSE LET phase == IF prev_phase_id > 0
                      THEN add_dependency(reversed[i], prev_phase_id)
                      ELSE reversed[i]
         IN  backward_pass(reversed, i + 1, phase.id, Append(phases_new, phase))

rebuild_phases_unreversed(last_id, recipe_spec) ==
    LET sd == start_date(recipe_spec)
    IN  IF ~sd.ok THEN [ok |-> FALSE, last_id |-> last_id, phases |-> <<>>]
        ELSE CHOOSE result \in
                 { IF ~f.ok THEN f
                   ELSE [ok |-> TRUE, last_id |-> f.last_id,
                         phases |-> backward_pass(Reverse(f.phases), 1, 0, <<>>)] :
                   f \in {forward_pass(recipe_spec.phase_specs, 1, last_id, sd.val, <<>>)} } :
                 TRUE

rebuild_phases_lenient(last_id, recipe_spec) ==
    CHOOSE result \in
        { IF ~f.ok THEN f
          ELSE [ok |-> TRUE, last_id |-> f.last_id,
                phases |-> Reverse(backward_pass(Reverse(f.phases), 1, 0, <<>>))] :
          f \in {forward_pass(recipe_spec.phase_specs, 1, last_id,
                              IF start_date(recipe_spec).ok
                              THEN start_date(recipe_spec).val ELSE Date20200101,
                              <<>>)} } : TRUE

\* ProductionSchedule::rebuild_phases_from_specs
rebuild_phases_from_specs(last_id, recipe_spec) ==
    LET sd == start_date(recipe_spec)
    IN  IF ~sd.ok THEN [ok |-> FALSE, last_id |-> last_id, phases |-> <<>>]
        ELSE CHOOSE result \in
                 { IF ~f.ok THEN f
                   ELSE [ok |-> TRUE, last_id |-> f.last_id,
                         phases |-> Reverse(backward_pass(Reverse(f.phases), 1, 0, <<>>))] :
                   f \in {forward_pass(recipe_spec.phase_specs, 1, last_id, sd.val, <<>>)} } :
                 TRUE

\* The loop of rebuild_recipes_from_specs from recipe spec i on.
RECURSIVE rebuild_from(_, _, _, _, _)
rebuild_from(specs, timeline, i, last_id, recipes_vec) ==
    IF i > Len(specs)
    THEN [ok |-> TRUE, last_id |-> last_id, recipes |-> recipes_vec]
    ELSE LET sd == start_date(specs[i])
             tl == get_naive_date_time_from_string(timeline)
         IN  IF ~sd.ok /\ ~tl.ok
             THEN [ok |-> FALSE, last_id |-> last_id, recipes |-> recipes_vec]
             ELSE LET recipe_start_date == IF sd.ok THEN sd.val ELSE tl.val
                      id == get_next_id(last_id)
                  IN  CHOOSE result \in
                          { IF ~p.ok
                            THEN [ok |-> FALSE, last_id |-> p.last_id,
                                  recipes |-> recipes_vec]
                            ELSE rebuild_from(specs, timeline, i + 1, p.last_id,
                                     Append(recipes_vec,
                                            [id |-> id, phases |-> p.phases,
                                             start_date |-> recipe_start_date])) :
                            p \in {rebuild_phases_from_specs(id, specs[i])} } : TRUE

rebuild_recipes_skip_one(specs, timeline, last_id) ==
    rebuild_from(specs, timeline, 1, last_id + 1, <<>>)

\* ProductionSchedule::rebuild_recipes_from_specs
rebuild_recipes_from_specs(specs, timeline, last_id) ==
    rebuild_from(specs, timeline, 1, last_id, <<>>)

track_resources_first_only(map, decl, i) ==
    IF decl = <<>> THEN map ELSE track_resource(map, decl[1])

\* ProductionSchedule::track_resources
RECURSIVE track_resources(_, _, _)
track_resources(map, decl, i) ==
    IF i > Len(decl) THEN map
    ELSE track_resources(track_resource(map, decl[i]), decl, i + 1)

(***************************************************************************)
(* Rendering to the PLA format.  A piece of text is a sequence of tokens:  *)
(* the content of one line (its leading spaces, its keyword and what       *)
(* follows) or the newline character.  Names and colours are strings       *)
(* copied from the input; the model carries neither, so a header shows the *)
(* id alone and a colour line shows no value.                              *)
(***************************************************************************)
Content(spaces, key, val) == [spaces |-> spaces, key |-> key, val |-> val]
Newline == Content(0, "\n", 0)

\* util::get_space_indent: the number of spaces
get_space_indent(indents) == indents * 2

\* util::get_duration_in_hours: whole hours, the rest dropped
get_duration_in_hours(dur) == dur \div Hour

\* The start of a phase as printed: the date alone at midnight, otherwise
\* the date and the hour ("%Y-%m-%d %H"); minutes and seconds are not printed.
format_start_date(start) ==
    IF start % Day = 0
    THEN <<"%Y-%m-%d", start \div Day>>
    ELSE <<"%Y-%m-%d %H", start \div Hour>>

\* Builder::append over the parts, then Builder::string
RECURSIVE builder_string(_)
builder_string(parts) ==
    IF parts = <<>> THEN <<>>
    ELSE parts[1] \o builder_string(Tail(parts))

\* PhaseInstance::get_string_in_pla_format
phase_get_string_in_pla_format(phase, initial_indent) ==
    << Content(get_space_indent(initial_indent), "phase", <<phase.id, phase.description>>),
       Newline,
       Content(get_space_indent(initial_indent + 1), "start",
               format_start_date(phase.start_date)),
       Newline,
       Content(get_space_indent(initial_indent + 1), "color", 0),
       Newline,
       Content(get_space_indent(initial_indent + 1), "duration",
               get_duration_in_hours(phase.duration)),
       Newline >>
    \o builder_string([i \in 1..Len(phase.dependencies) |->
            <<Content(get_space_indent(2), "dep", phase.dependencies[i]), Newline>>])
    \o <<Newline>>

\* A recipe renderer that lists the children last to first.
recipe_pla_children_reversed(recipe, initial_indent) ==
    << Content(0, "recipe", recipe.id), Newline >>
    \o builder_string([k \in 1..Len(recipe.phases) |->
            <<Content(get_space_indent(initial_indent), "child",
                      recipe.phases[Len(recipe.phases) + 1 - k].id), Newline>>])
    \o <<Newline>>

\* Recipe::get_string_in_pla_format
recipe_get_string_in_pla_format(recipe, initial_indent) ==
    << Content(0, "recipe", recipe.id), Newline >>
    \o builder_string([k \in 1..Len(recipe.phases) |->
            <<Content(get_space_indent(initial_indent), "child", recipe.phases[k].id),
              Newline>>])
    \o <<Newline>>

\* The builder of ProductionSchedule::get_string_in_pla_format before the
\* last character is cut off.
final_pla(recipes_vec) ==
    builder_string([i \in 1..Len(recipes_vec) |->
        recipe_get_string_in_pla_format(recipes_vec[i], 1)
        \o builder_string([k \in 1..Len(recipes_vec[i].phases) |->
                phase_get_string_in_pla_format(recipes_vec[i].phases[k], 1)])])

\* final_pla[..final_pla.len() - 1]: for the empty text the subtraction on
\* usize overflows; a build with overflow checks aborts there, a build without
\* them wraps to usize::MAX and the slice aborts as out of range.
cut_last(text) ==
    IF Len(text) = 0 THEN PanicR ELSE Some(SubSeq(text, 1, Len(text) - 1))

\* ProductionSchedule::get_string_in_pla_format
get_string_in_pla_format(recipes_vec) == cut_last(final_pla(recipes_vec))

(***************************************************************************)
(* The schedule as deserialized, and init.                                 *)
(***************************************************************************)
MaxRecipes == 2
MaxPhases == 2
MaxInits == 2
MaxRebuilds == 1

\* The phase specs a recipe is built from: everything inherited from the
\* template, everything overridden, and a template that does not exist.
PhaseSpecChoices ==
    { [template |-> "planning", description |-> "", duration_string |-> <<>>],
      [template |-> "primary", description |-> "Dry hop",
       duration_string |-> <<"2", "w">>],
      [template |-> "missing", description |-> "", duration_string |-> <<>>] }

StartChoices == {NoStr, SomeStr("2020-01-02 06:00:00")}

SeqsUpTo(S, n) == UNION {[1..k -> S] : k \in 0..n}

RecipeSpecChoices ==
    {[start_string |-> st, phase_specs |-> ps] :
        st \in StartChoices, ps \in SeqsUpTo(PhaseSpecChoices, MaxPhases)}

DeclaredChoices ==
    { <<ResourceNew(1, Fermentor), ResourceNew(2, Keg)>> }

\* The same id declared twice.
DeclaredTwice ==
    { <<ResourceNew(1, Fermentor), ResourceNew(2, Keg), ResourceNew(1, Keg)>> }

SchedInitState ==
    /\ status = "loaded"
    /\ timeline_start = "2020-01-01"
    /\ declared \in DeclaredChoices \cup DeclaredTwice
    /\ recipe_specs \in SeqsUpTo(RecipeSpecChoices, MaxRecipes)
    /\ recipes = <<>>
    /\ last_id_used = 0
    /\ resources = <<>>
    /\ loose = <<>>
    /\ last = Idle
    /\ duration_input = <<>>
    /\ converted = Pending
    /\ init_calls = 0
    /\ phase_instance = Pending
    /\ added = <<>>
    /\ serde = Pending
    /\ rendered = Pending

\* ProductionSchedule::init.  An abort leaves the fields as they were when it
\* happened: the start dates verified, the counter advanced, no recipes stored.
init_counter_kept(last_id) == last_id

\* self.last_id_used = 0
init_counter(last_id) == 0

\* The recipes and phase instances of the graph: <<i, 0>> is recipe i and
\* <<i, k>> its k-th phase.
BuiltObjects ==
    UNION {{<<i, k>> : k \in 0..Len(recipes[i].phases)} : i \in 1..Len(recipes)}

SchedInit ==
    /\ status \in {"loaded", "ready"}
    /\ init_calls < MaxInits
    /\ init_calls' = init_calls + 1
    /\ \E verified \in {verify_recipe_start_dates(recipe_specs, timeline_start)} :
       \E r \in {rebuild_recipes_from_specs(verified, timeline_start,
                                              init_counter(last_id_used))} :
           /\ recipe_specs' = verified
           /\ last_id_used' = r.last_id
           /\ IF r.ok
              THEN /\ status' = "ready"
                   /\ recipes' = r.recipes
                   /\ resources' = track_resources(resources, declared, 1)
              ELSE /\ status' = "panicked"
                   /\ UNCHANGED <<recipes, resources>>
    /\ UNCHANGED <<timeline_start, declared, loose, last, duration_input, converted,
                   modelVars>>

SchedNext == SchedInit

SpecSched == SchedInitState /\ [][SchedNext]_vars

\* rebuild_recipes_from_specs run again on an initialised schedule, the
\* counter left where the previous run put it.
Rebuild ==
    /\ status = "ready"
    /\ recipes /= <<>>
    /\ last_id_used < (MaxRebuilds + 1) * Cardinality(BuiltObjects)
    /\ \E r \in {rebuild_recipes_from_specs(recipe_specs, timeline_start, last_id_used)} :
           /\ last_id_used' = r.last_id
           /\ IF r.ok
              THEN recipes' = r.recipes /\ status' = "ready"
              ELSE recipes' = recipes /\ status' = "panicked"
    /\ UNCHANGED <<timeline_start, declared, recipe_specs, trackerVars, utilVars>>

RebuildNext == SchedInit \/ Rebuild

SpecRebuild == SchedInitState /\ [][RebuildNext]_vars

(***************************************************************************)
(* init on schedules that may be malformed: phase specs that name a        *)
(* template the schedule does not have, with and without overrides;        *)
(* durations with an unknown unit or no digits; start strings, of a recipe *)
(* or of the timeline, that are not dates.                                 *)
(***************************************************************************)
AnyPhaseSpecChoices ==
    PhaseSpecChoices \cup
    { [template |-> "missing", description |-> "Dry hop",
       duration_string |-> <<"2", "w">>],
      [template |-> "missing", description |-> "", duration_string |-> <<"2", "w">>],
      [template |-> "missing", description |-> "Dry hop", duration_string |-> <<>>],
      [template |-> "missing", description |-> "Dry hop",
       duration_string |-> <<"3", "x">>],
      [template |-> "erroneous", description |-> "", duration_string |-> <<>>],
      [template |-> "primary", description |-> "", duration_string |-> <<"3", "x">>],
      [template |-> "planning", description |-> "", duration_string |-> <<"x">>] }

\* No phase, one phase, or the planning phase followed by one more.
AnyPhaseLists ==
    {<<>>} \cup {<<p>> : p \in AnyPhaseSpecChoices}
           \cup {<<[template |-> "planning", description |-> "",
                    duration_string |-> <<>>], p>> : p \in AnyPhaseSpecChoices}

AnyStartChoices == StartChoices \cup {SomeStr("tomorrow")}

TimelineChoices == {"2020-01-01", "soon"}

AnyRecipeSpecChoices ==
    {[start_string |-> st, phase_specs |-> ps] :
        st \in AnyStartChoices, ps \in AnyPhaseLists}

SchedAnyInitState ==
    /\ status = "loaded"
    /\ timeline_start \in TimelineChoices
    /\ declared \in DeclaredChoices
    /\ recipe_specs \in SeqsUpTo(AnyRecipeSpecChoices, MaxRecipes)
    /\ recipes = <<>>
    /\ last_id_used = 0
    /\ resources = <<>>
    /\ loose = <<>>
    /\ last = Idle
    /\ duration_input = <<>>
    /\ converted = Pending
    /\ init_calls = 0
    /\ phase_instance = Pending
    /\ added = <<>>
    /\ serde = Pending
    /\ rendered = Pending

SpecSchedAny == SchedAnyInitState /\ [][SchedNext]_vars

(***************************************************************************)
(* convert_string_to_duration on its own: a string of at most MaxLen       *)
(* characters is converted once.                                           *)
(***************************************************************************)
MaxLen == 3

DurationChars == {"0", "1", "3", "m", "w", "d", "h", "x", "-", "+"}

DurInit ==
    /\ duration_input \in SeqsUpTo(DurationChars, MaxLen)
    /\ converted = Pending
    /\ init_calls = 0
    /\ phase_instance = Pending
    /\ added = <<>>
    /\ serde = Pending
    /\ rendered = Pending
    /\ resources = <<>>
    /\ loose = <<>>
    /\ last = Idle
    /\ status = "loaded"
    /\ timeline_start = "2020-01-01"
    /\ declared = <<>>
    /\ recipe_specs = <<>>
    /\ recipes = <<>>
    /\ last_id_used = 0

Convert ==
    /\ converted = Pending
    /\ converted' = convert_string_to_duration(duration_input)
    /\ UNCHANGED <<duration_input, init_calls, modelVars, trackerVars, schedVars>>

DurNext == Convert

SpecDur == DurInit /\ [][DurNext]_vars

(***************************************************************************)
(* One PhaseInstance and the add_dependency calls made on it, as the tests *)
(* of phases.rs drive it.  `added` lists the ids passed, in call order.    *)
(***************************************************************************)
MaxDepId == 3
MaxDepCalls == 4

DepsInit ==
    /\ phase_instance = PhaseInstanceNew(0, "A phase instance", 10 * Day, Date20200101)
    /\ added = <<>>
    /\ serde = Pending
    /\ rendered = Pending
    /\ duration_input = <<>>
    /\ converted = Pending
    /\ init_calls = 0
    /\ resources = <<>>
    /\ loose = <<>>
    /\ last = Idle
    /\ status = "new"
    /\ timeline_start = "2020-01-01"
    /\ declared = <<>>
    /\ recipe_specs = <<>>
    /\ recipes = <<>>
    /\ last_id_used = 0

\* phase_instance.add_dependency(dep)
AddDependency(dep) ==
    /\ phase_instance /= Pending
    /\ Len(added) < MaxDepCalls
    /\ phase_instance' = add_dependency(phase_instance, dep)
    /\ added' = Append(added, dep)
    /\ UNCHANGED <<serde, rendered, duration_input, converted, init_calls,
                   trackerVars, schedVars>>

DepsNext == \E dep \in 1..MaxDepId : AddDependency(dep)

SpecDeps == DepsInit /\ [][DepsNext]_vars

(***************************************************************************)
(* Rendering: a client renders the schedule it initialised, or a phase     *)
(* instance it built and gave dependencies by hand.  `rendered` holds what *)
(* the last call rendered and what it returned.                            *)
(***************************************************************************)
RenderInit == SchedInitState \/ DepsInit

\* schedule.get_string_in_pla_format()
Render ==
    /\ status = "ready"
    /\ rendered' = [of |-> "schedule", out |-> get_string_in_pla_format(recipes)]
    /\ UNCHANGED <<phase_instance, added, serde, duration_input, converted, init_calls,
                   trackerVars, schedVars>>

\* phase_instance.get_string_in_pla_format(0)
RenderPhase ==
    /\ phase_instance /= Pending
    /\ rendered' = [of |-> "phase",
                    out |-> Some(phase_get_string_in_pla_format(phase_instance, 0))]
    /\ UNCHANGED <<phase_instance, added, serde, duration_input, converted, init_calls,
                   trackerVars, schedVars>>

RenderNext == SchedInit \/ Render \/ DepsNext \/ RenderPhase

SpecRender == RenderInit /\ [][RenderNext]_vars

(***************************************************************************)
(* ResourceType through serde, in both directions: a value is serialized   *)
(* to its tag and the tag converted back; a tag read from a file is        *)
(* converted to a value and that value serialized.  `serde` holds the      *)
(* input, the intermediate and the final result.                           *)
(***************************************************************************)
NamedTypes == {Fermentor, Kettle, MashTun, LauterTun, Keg, Kegerator, GasTank}
TagStrings ==
    {"fermentor", "kettle", "mashtun", "lautertun", "keg", "kegerator", "gastank",
     "Fermentor", "Kettle", "MashTun", "LauterTun", "Keg", "Kegerator", "GasTank",
     "fancythingy", "", "other", "Other", "kegs", "gas_tank"}
ResourceTypeValues == NamedTypes \cup {Other(label) : label \in TagStrings}
TypeV(t) == [kind |-> "type", val |-> t]
TagV(str) == [kind |-> "tag", val |-> str]

TypeInit ==
    /\ serde \in {[input |-> x, mid |-> Pending, output |-> Pending] :
                     x \in {TypeV(t) : t \in ResourceTypeValues}
                            \cup {TagV(str) : str \in TagStrings}}
    /\ phase_instance = Pending
    /\ added = <<>>
    /\ rendered = Pending
    /\ duration_input = <<>>
    /\ converted = Pending
    /\ init_calls = 0
    /\ resources = <<>>
    /\ loose = <<>>
    /\ last = Idle
    /\ status = "new"
    /\ timeline_start = "2020-01-01"
    /\ declared = <<>>
    /\ recipe_specs = <<>>
    /\ recipes = <<>>
    /\ last_id_used = 0

\* The next conversion is applied to the value `x` and stored in the first
\* empty slot.
Slot(x) ==
    IF serde.mid.kind = "Pending" THEN [serde EXCEPT !.mid = x]
    ELSE [serde EXCEPT !.output = x]
Latest == IF serde.mid.kind = "Pending" THEN serde.input ELSE serde.mid

\* ResourceType::serialize
Serialize ==
    /\ serde.output.kind = "Pending"
    /\ Latest.kind = "type"
    /\ serde' = Slot(TagV(serialize(Latest.val)))
    /\ UNCHANGED <<phase_instance, added, rendered, duration_input, converted,
                   init_calls, trackerVars, schedVars>>

\* ResourceType::deserialize, which is ResourceType::from on the string.
Deserialize ==
    /\ serde.output.kind = "Pending"
    /\ Latest.kind = "tag"
    /\ serde' = Slot(TypeV(ResourceType_from(Latest.val)))
    /\ UNCHANGED <<phase_instance, added, rendered, duration_input, converted,
                   init_calls, trackerVars, schedVars>>

TypeNext == Serialize \/ Deserialize

SpecType == TypeInit /\ [][TypeNext]_vars

(***************************************************************************)
(* Properties of the resource tracker.  The helpers below restate closed-  *)
(* range overlap directly, without the operators that model the code.      *)
(***************************************************************************)
Overlap(p, q) == p.start <= q.end /\ q.start <= p.end

Held(res) == {res.allocated_periods[i] : i \in 1..Len(res.allocated_periods)}

Busy(res, p) == \E h \in Held(res) : Overlap(h, p)

PairwiseDisjoint(ps) ==
    \A i, j \in 1..Len(ps) : i < j => ~Overlap(ps[i], ps[j])

Shifted(p, t) == [start |-> t, end |-> t + (p.end - p.start)]

FreeOfType(map, rtype, p) == {k \in OfType(map, rtype) : ~Busy(map[k], p)}

\* C1: the intervals held by every resource, tracked or still owned by the
\* client, are pairwise non-intersecting as closed ranges.
C1_PairwiseDisjoint ==
    /\ \A k \in DOMAIN resources : PairwiseDisjoint(resources[k].allocated_periods)
    /\ loose /= <<>> => PairwiseDisjoint(loose[1].allocated_periods)

\* A tracked resource holds two intervals, the second starting one second
\* after the first ends.
C1_Witness ==
    \E k \in DOMAIN resources :
        /\ Len(resources[k].allocated_periods) = 2
        /\ resources[k].allocated_periods[2].start
               = resources[k].allocated_periods[1].end + OneSecond

\* C2: when some tracked resource of the type is free for the period, allocate
\* returns the smallest id among the resources of that type that are free for
\* it, and that resource holds the period afterwards.
C2_SmallestFreeId ==
    [][last'.op = "allocate" =>
          LET free == FreeOfType(resources, last'.rtype, last'.period)
          IN  free /= {} =>
                  /\ last'.result = Some(MinOf(free))
                  /\ last'.period \in Held(resources'[MinOf(free)])]_vars

\* allocate returned resource 2 although resource 1 has the requested type
\* (it is occupied), or resource 1 is free but of another type.
C2_Witness ==
    /\ last.op = "allocate"
    /\ last.result = Some(2)
    /\ 1 \in DOMAIN resources
    /\ resources[1].resource_type = last.rtype
    /\ Busy(resources[1], last.period)

\* C3: when no resource of the type is tracked, or every tracked one holds an
\* interval intersecting the period, allocate returns None (no abort) and
\* leaves the tracker as it was.
C3_UnavailableIsNone ==
    [][(last'.op = "allocate"
            /\ FreeOfType(resources, last'.rtype, last'.period) = {}) =>
          /\ last'.result = NoneR
          /\ resources' = resources
          /\ loose' = loose]_vars

\* allocate returned None while a resource of the requested type is tracked
\* and a resource of the other type is free for the period.
C3_Witness ==
    /\ last.op = "allocate"
    /\ last.result = NoneR
    /\ OfType(resources, last.rtype) /= {}
    /\ \E k \in DOMAIN resources : ~Busy(resources[k], last.period)

\* C4: allocate_over_start_duration succeeds exactly when the closed range
\* intersects no held interval; a refused call leaves the list unchanged, a
\* successful one adds the range and keeps what was held.
C4_AllocateIffFree ==
    [][last'.op = "res_allocate" =>
          /\ last'.result = BoolR(~Busy(loose[1], last'.period))
          /\ Busy(loose[1], last'.period) => loose' = loose
          /\ ~Busy(loose[1], last'.period) =>
                 /\ Held(loose'[1]) = Held(loose[1]) \cup {last'.period}
                 /\ Len(loose'[1].allocated_periods)
                        = Len(loose[1].allocated_periods) + 1]_vars

\* The second allocation on the same resource succeeded: both ranges are held.
C4_Witness ==
    /\ last.op = "res_allocate"
    /\ last.result = BoolR(TRUE)
    /\ Len(loose[1].allocated_periods) = 2

\* C5: a request starting at the end instant of a held interval intersects it
\* (is_allocated_over_period is true, allocation on that resource is refused
\* and the tracker does not pick it); a request starting one second later
\* that meets no other held interval is accepted.
C5_ClosedBoundary ==
    [][/\ last'.op = "res_is_allocated" =>
             ((\E h \in Held(loose[1]) : h.end = last'.period.start)
                  => last'.result = BoolR(TRUE))
       /\ last'.op = "res_allocate" =>
             /\ (\E h \in Held(loose[1]) : h.end = last'.period.start)
                    => (last'.result = BoolR(FALSE) /\ loose' = loose)
             /\ ((\E h \in Held(loose[1]) : h.end + OneSecond = last'.period.start)
                    /\ \A h \in Held(loose[1]) :
                           h.end < last'.period.start \/ last'.period.end < h.start)
                    => (last'.result = BoolR(TRUE)
                           /\ last'.period \in Held(loose'[1]))
       /\ last'.op = "allocate" =>
             \A k \in DOMAIN resources :
                 (\E h \in Held(resources[k]) : h.end = last'.period.start)
                     => (last'.result /= Some(k) /\ resources'[k] = resources[k])]_vars

\* A resource holds [a, b] and [b + 1, c]: the request starting one second
\* after the end of the first interval was accepted on it.
C5_Witness ==
    /\ last.op = "res_allocate"
    /\ last.result = BoolR(TRUE)
    /\ \E h \in Held(loose[1]) : h.end + OneSecond = last.period.start

\* The candidate starts of get_earliest_free_date_for_period: one second past
\* the end of a held interval that does not end before the period starts, such
\* that the period moved there meets no held interval.
Candidates(res, p) ==
    {h.end + OneSecond :
        h \in {g \in Held(res) :
                  g.end >= p.start /\ ~Busy(res, Shifted(p, g.end + OneSecond))}}

\* C6: get_earliest_free_date_for_period returns period.start when the resource
\* is free for the period, and otherwise the smallest acceptable candidate
\* among the held intervals that do not end before period.start.
C6_EarliestIsSmallestCandidate ==
    last.op = "res_earliest" =>
        IF ~Busy(loose[1], last.period)
        THEN last.result = Some(last.period.start)
        ELSE Candidates(loose[1], last.period) /= {}
                 => last.result = Some(MinOf(Candidates(loose[1], last.period)))

\* C7: the next available date for a type is the minimum of the earliest free
\* dates of the tracked resources of that type; it is None exactly when no
\* resource of the type is tracked, and period.start when one of them is free.
C7_NextAvailableIsMinimum ==
    last.op = "next_available" =>
        LET typed == OfType(resources, last.rtype)
            dates == {get_earliest_free_date_for_period(resources[k], last.period) :
                         k \in typed}
        IN  /\ last.result = NoneR <=> typed = {}
            /\ (typed /= {} /\ PanicR \notin dates) =>
                   /\ last.result.kind = "Some"
                   /\ [kind |-> "Some", val |-> last.result.val] \in dates
                   /\ \A f \in dates : last.result.val <= f.val
            /\ FreeOfType(resources, last.rtype, last.period) /= {}
                   => last.result = Some(last.period.start)

\* Two occupied resources of the type have different earliest free dates.
C7_Witness ==
    /\ last.op = "next_available"
    /\ FreeOfType(resources, last.rtype, last.period) = {}
    /\ \E j, k \in OfType(resources, last.rtype) :
           get_earliest_free_date_for_period(resources[j], last.period).val
               < get_earliest_free_date_for_period(resources[k], last.period).val

\* C8: is_resource_of_type_free_for_period is true iff some tracked resource of
\* the type holds no interval intersecting the period.
C8_FreeIsExistential ==
    last.op = "is_free" =>
        last.result = BoolR(FreeOfType(resources, last.rtype, last.period) /= {})

\* The answer is true although another resource of the type is occupied.
C8_Witness ==
    /\ last.op = "is_free"
    /\ last.result = BoolR(TRUE)
    /\ \E k \in OfType(resources, last.rtype) : Busy(resources[k], last.period)

(***************************************************************************)
(* Properties of the schedule built by init.                               *)
(***************************************************************************)
PhaseIds(recipe) == {recipe.phases[k].id : k \in 1..Len(recipe.phases)}

AllIds(recipe) == {recipe.id} \cup PhaseIds(recipe)

\* C9: after init, a recipe's id is smaller than the ids of its phases, the
\* phase ids increase strictly along the spec's phase list, and every id of a
\* recipe is smaller than every id of a recipe declared later.
C9_IdOrdering ==
    status = "ready" =>
        /\ Len(recipes) = Len(recipe_specs)
        /\ \A i \in 1..Len(recipes) :
               /\ Len(recipes[i].phases) = Len(recipe_specs[i].phase_specs)
               /\ \A k \in 1..Len(recipes[i].phases) :
                      /\ recipes[i].id < recipes[i].phases[k].id
                      /\ recipe_specs[i].phase_specs[k].description /= ""
                             => recipes[i].phases[k].description
                                    = recipe_specs[i].phase_specs[k].description
                      /\ \A m \in 1..Len(recipes[i].phases) :
                             k < m => recipes[i].phases[k].id < recipes[i].phases[m].id
               /\ \A j \in 1..Len(recipes) :
                      i < j => \A a \in AllIds(recipes[i]), b \in AllIds(recipes[j]) : a < b

\* Two recipes of two phases each were built.
C9_Witness ==
    /\ status = "ready"
    /\ Len(recipes) = 2
    /\ Len(recipes[1].phases) = 2
    /\ Len(recipes[2].phases) = 2

\* C10: within one load no two objects among the recipes and the phase
\* instances share an id.
C10_IdsUnique ==
    status = "ready" =>
        LET present == UNION {{<<i, k>> : k \in 0..Len(recipes[i].phases)} :
                                 i \in 1..Len(recipes)}
            IdOf(o) == IF o[2] = 0 THEN recipes[o[1]].id
                       ELSE recipes[o[1]].phases[o[2]].id
        IN  \A o1, o2 \in present : o1 /= o2 => IdOf(o1) /= IdOf(o2)

\* Several recipes with at least three phases between them were built.
C10_Witness ==
    /\ status = "ready"
    /\ Len(recipes) >= 2
    /\ Len(recipes[1].phases) + Len(recipes[2].phases) >= 3
    /\ last_id_used >= 5

BuiltId(o) == IF o[2] = 0 THEN recipes[o[1]].id ELSE recipes[o[1]].phases[o[2]].id

\* C11: after init the first recipe has id 1, the ids of the R recipes and
\* their P phases are exactly 1..R+P, and last_id_used is R+P.
C11_IdsContiguous ==
    status = "ready" =>
        LET n == Cardinality(BuiltObjects)
        IN  /\ {BuiltId(o) : o \in BuiltObjects} = 1..n
            /\ last_id_used = n
            /\ recipes /= <<>> => recipes[1].id = 1

\* Two recipes were built, both with phases, and the counter stands at the
\* number of objects.
C11_Witness ==
    /\ status = "ready"
    /\ Len(recipes) = 2
    /\ recipes[1].phases /= <<>>
    /\ recipes[2].phases /= <<>>
    /\ recipes[1].id = 1
    /\ last_id_used = Cardinality(BuiltObjects)

\* The template a phase spec names, when the schedule has it.
TemplateNamed(id) ==
    PhaseTemplates[CHOOSE i \in 1..Len(PhaseTemplates) : PhaseTemplates[i].id = id]

HasTemplate(id) == \E i \in 1..Len(PhaseTemplates) : PhaseTemplates[i].id = id

ResolvedDescription(phase_spec) ==
    IF phase_spec.description /= "" THEN phase_spec.description
    ELSE TemplateNamed(phase_spec.template).description

\* C12: after init every phase but the last of a recipe has exactly one
\* dependency, the id of the next phase of the recipe; the last phase has
\* none; and the phases stand in the order of the spec's phase list.
C12_DependsOnSuccessor ==
    status = "ready" =>
        \A i \in 1..Len(recipes) :
            LET phases == recipes[i].phases
                n == Len(phases)
            IN  /\ n = Len(recipe_specs[i].phase_specs)
                /\ \A k \in 1..n :
                       /\ phases[k].dependencies =
                              IF k < n THEN <<phases[k + 1].id>> ELSE <<>>
                       /\ phases[k].description =
                              ResolvedDescription(recipe_specs[i].phase_specs[k])

\* A recipe of two different phases was built, the first depending on the second.
C12_Witness ==
    /\ status = "ready"
    /\ \E i \in 1..Len(recipes) :
           /\ Len(recipes[i].phases) = 2
           /\ recipes[i].phases[1].description /= recipes[i].phases[2].description
           /\ recipes[i].phases[1].dependencies = <<recipes[i].phases[2].id>>
           /\ recipes[i].phases[2].dependencies = <<>>

\* C13: after init the first phase of a recipe starts at the recipe's start
\* date and every later phase starts where its predecessor starts plus the
\* predecessor's duration.
C13_PhasesSerial ==
    status = "ready" =>
        \A i \in 1..Len(recipes) :
            LET phases == recipes[i].phases
            IN  \A k \in 1..Len(phases) :
                    phases[k].start_date =
                        IF k = 1 THEN recipes[i].start_date
                        ELSE phases[k - 1].start_date + phases[k - 1].duration

\* A recipe with an explicit start was built whose second phase starts one
\* hour, the first phase's duration, after the recipe.
C13_Witness ==
    /\ status = "ready"
    /\ \E i \in 1..Len(recipes) :
           /\ Len(recipes[i].phases) = 2
           /\ recipes[i].start_date = DateTime20200102T06
           /\ recipes[i].phases[1].duration = Hour
           /\ recipes[i].phases[2].start_date = DateTime20200102T06 + Hour

\* The duration a phase spec resolves to: its own duration string when that is
\* not empty and converts to a duration, else the default duration of its
\* template when that converts to one, else one day.
ResolvedDuration(phase_spec) ==
    LET override == IF phase_spec.duration_string = <<>> THEN NoneR
                    ELSE convert_string_to_duration(phase_spec.duration_string)
        inherited == IF HasTemplate(phase_spec.template)
                     THEN convert_string_to_duration(
                              TemplateNamed(phase_spec.template).default_duration)
                     ELSE NoneR
    IN  IF override.kind = "Some" THEN override.val
        ELSE IF inherited.kind = "Some" THEN inherited.val
        ELSE Day

\* C14: the duration of every phase instance is the override of its spec, else
\* the default of its template, else one day.
C14_DurationPrecedence ==
    status = "ready" =>
        \A i \in 1..Len(recipes) :
            \A k \in 1..Len(recipes[i].phases) :
                recipes[i].phases[k].duration =
                    ResolvedDuration(recipe_specs[i].phase_specs[k])

\* One init resolved a duration each way: an override of two weeks over a
\* default of ten days, a default of one hour, and the one-day fallback under
\* a default that has an unknown unit.
C14_Witness ==
    /\ status = "ready"
    /\ \E i, j \in 1..Len(recipes) :
           /\ Len(recipes[i].phases) = 2
           /\ recipes[i].phases[1].duration = Hour
           /\ recipe_specs[i].phase_specs[2].template = "erroneous"
           /\ recipes[i].phases[2].duration = Day
           /\ Len(recipes[j].phases) = 2
           /\ recipe_specs[j].phase_specs[2].template = "primary"
           /\ recipes[j].phases[2].duration = 14 * Day

\* The phase specs of the schedule: <<i, k>> is the k-th of recipe spec i.
PhaseSpecsAt ==
    UNION {{<<i, k>> : k \in 1..Len(recipe_specs[i].phase_specs)} :
              i \in 1..Len(recipe_specs)}

PhaseSpecAt(o) == recipe_specs[o[1]].phase_specs[o[2]]

\* C15 as stated: a phase spec that names a template the schedule does not
\* have makes init abort, whatever it overrides; no init completes with one.
C15_UnknownTemplateFatal ==
    status = "ready" =>
        \A o \in PhaseSpecsAt : HasTemplate(PhaseSpecAt(o).template)

\* C15, amended: a phase spec that names a template the schedule does not have
\* makes init abort when it leaves its description empty, or its duration
\* empty or with an unknown unit, which is when the template is looked up;
\* init completes only if every such spec overrides both.
C15_UnknownTemplateFatalWhenConsulted ==
    status = "ready" =>
        \A o \in PhaseSpecsAt :
            ~HasTemplate(PhaseSpecAt(o).template) =>
                /\ PhaseSpecAt(o).description /= ""
                /\ PhaseSpecAt(o).duration_string /= <<>>
                /\ convert_string_to_duration(PhaseSpecAt(o).duration_string).kind
                       = "Some"

\* On a schedule with valid dates, init aborted on its only phase spec, which
\* names an unknown template and overrides the description but not, with a
\* known unit, the duration.
C15_Witness ==
    /\ status = "panicked"
    /\ recipes = <<>>
    /\ get_naive_date_time_from_string(timeline_start).ok
    /\ Len(recipe_specs) = 1
    /\ start_date(recipe_specs[1]).ok
    /\ Len(recipe_specs[1].phase_specs) = 1
    /\ ~HasTemplate(recipe_specs[1].phase_specs[1].template)
    /\ recipe_specs[1].phase_specs[1].description /= ""
    /\ recipe_specs[1].phase_specs[1].duration_string = <<"3", "x">>

\* The start a recipe spec resolves to: the parse of its own start string, or
\* of the timeline's when it has none.
ResolvedStart(recipe_spec, timeline) ==
    IF recipe_spec.start_string.some
    THEN get_naive_date_time_from_string(recipe_spec.start_string.str)
    ELSE get_naive_date_time_from_string(timeline)

\* C16: every recipe a completed init produces starts at the parse of its
\* spec's explicit start string, or of the timeline's start string when the
\* spec had none.
C16_StartResolution ==
    [][status' = "ready" =>
          /\ Len(recipes') = Len(recipe_specs)
          /\ \A i \in 1..Len(recipe_specs) :
                 /\ ResolvedStart(recipe_specs[i], timeline_start).ok
                 /\ recipes'[i].start_date
                        = ResolvedStart(recipe_specs[i], timeline_start).val]_vars

\* One init built a recipe at its explicit start and another, which had none,
\* at the timeline's.
C16_Witness ==
    /\ status = "ready"
    /\ Len(recipes) = 2
    /\ recipes[1].start_date = DateTime20200102T06
    /\ recipe_specs[1].start_string = SomeStr("2020-01-02 06:00:00")
    /\ recipes[2].start_date = Date20200101
    /\ recipe_specs[2].start_string = SomeStr(timeline_start)

ExplicitStartMalformed(recipe_spec) ==
    /\ recipe_spec.start_string.some
    /\ ~get_naive_date_time_from_string(recipe_spec.start_string.str).ok

\* C17: when some recipe spec carries an explicit start string that is not a
\* date, init aborts and stores no recipes.
C17_MalformedStartFatal ==
    [][(\E i \in 1..Len(recipe_specs) : ExplicitStartMalformed(recipe_specs[i]))
           => status' = "panicked" /\ recipes' = recipes]_vars

\* Under a valid timeline start, init aborted on a single recipe without
\* phases whose start string is not a date.
C17_Witness ==
    /\ status = "panicked"
    /\ recipes = <<>>
    /\ get_naive_date_time_from_string(timeline_start).ok
    /\ Len(recipe_specs) = 1
    /\ recipe_specs[1].phase_specs = <<>>
    /\ recipe_specs[1].start_string = SomeStr("tomorrow")

\* C18 as stated: when the timeline's start string is not a date, init aborts
\* whatever the recipes are.
C18_BadTimelineFatal ==
    [][~get_naive_date_time_from_string(timeline_start).ok
           => status' = "panicked"]_vars

\* C18, amended: when the timeline's start string is not a date, init aborts
\* if some recipe spec has no explicit start string, the one case in which
\* the timeline's start is parsed.
C18_BadTimelineFatalOnFallback ==
    [][(/\ ~get_naive_date_time_from_string(timeline_start).ok
        /\ \E i \in 1..Len(recipe_specs) : ~recipe_specs[i].start_string.some)
           => status' = "panicked" /\ recipes' = recipes]_vars

\* Init aborted on a single recipe without phases that took the timeline's
\* start string, which is not a date.
C18_Witness ==
    /\ status = "panicked"
    /\ recipes = <<>>
    /\ ~get_naive_date_time_from_string(timeline_start).ok
    /\ Len(recipe_specs) = 1
    /\ recipe_specs[1].phase_specs = <<>>
    /\ recipe_specs[1].start_string = SomeStr(timeline_start)

(***************************************************************************)
(* Properties of convert_string_to_duration.                               *)
(***************************************************************************)
IsDigitRun(cs) == cs /= <<>> /\ \A i \in 1..Len(cs) : cs[i] \in Digits

\* The integer a digit run denotes, read from the left.
RECURSIVE NumberOf(_, _)
NumberOf(cs, acc) ==
    IF cs = <<>> THEN acc ELSE NumberOf(Tail(cs), 10 * acc + DigitVal(Head(cs)))

UnitLetters == {"m", "w", "d", "h"}

AllButLast(cs) == SubSeq(cs, 1, Len(cs) - 1)

\* C19: a digit run denoting n converts to n days; followed by m, to 30n
\* days; by w, to 7n days; by d, to n days; by h, to n hours.
C19_UnitsOfDuration ==
    converted /= Pending =>
        /\ IsDigitRun(duration_input)
               => converted = Some(NumberOf(duration_input, 0) * Day)
        /\ IsDigitRun(AllButLast(duration_input)) =>
               LET n == NumberOf(AllButLast(duration_input), 0)
                   unit == duration_input[Len(duration_input)]
               IN  /\ unit = "m" => converted = Some(n * 30 * Day)
                   /\ unit = "w" => converted = Some(n * 7 * Day)
                   /\ unit = "d" => converted = Some(n * Day)
                   /\ unit = "h" => converted = Some(n * Hour)

\* "13m" was converted to 390 days.
C19_Witness ==
    /\ duration_input = <<"1", "3", "m">>
    /\ converted = Some(390 * Day)

\* C20: the empty string, and a digit run followed by one character that is
\* neither a digit nor one of m, w, d, h, convert to no result, without abort.
C20_NoResult ==
    converted /= Pending =>
        /\ duration_input = <<>> => converted = NoneR
        /\ (/\ IsDigitRun(AllButLast(duration_input))
            /\ duration_input[Len(duration_input)] \notin Digits \cup UnitLetters)
               => converted = NoneR

\* "13x" was converted to no result.
C20_Witness ==
    /\ duration_input = <<"1", "3", "x">>
    /\ converted = NoneR

SignChars == {"+", "-"}

Unsigned(cs) == IF cs /= <<>> /\ cs[1] \in SignChars THEN Tail(cs) ELSE cs

\* An integer literal: an optional sign and a digit run.
ParsesAsInteger(cs) == IsDigitRun(Unsigned(cs))

\* C21: a string whose last character is not a digit and whose prefix is not
\* an integer (the empty prefix included), and a string that ends in a digit
\* and is not an integer as a whole, abort the conversion, whether or not the
\* last character is a unit letter.
C21_MalformedDigitsFatal ==
    (converted /= Pending /\ duration_input /= <<>>) =>
        IF duration_input[Len(duration_input)] \in Digits
        THEN ~ParsesAsInteger(duration_input) => converted = PanicR
        ELSE ~ParsesAsInteger(AllButLast(duration_input)) => converted = PanicR

\* The conversion aborted on a lone unit letter.
C21_Witness ==
    /\ duration_input = <<"d">>
    /\ converted = PanicR

C23_TrackRegistersById ==
    [][last'.op = "track" =>
          /\ DOMAIN resources' = DOMAIN resources \cup {loose[1].id}
          /\ resources'[loose[1].id] = loose[1]
          /\ \A k \in DOMAIN resources \ {loose[1].id} :
                 resources'[k] = resources[k]]_vars

\* A resource was tracked next to another one, which still holds an interval.
C23_Witness ==
    /\ last.op = "track"
    /\ \E k \in DOMAIN resources \ {last.id} : resources[k].allocated_periods /= <<>>

\* C24 as stated: right after track_resource(r) the resource tracked under
\* r.id holds no interval, whatever r was.
C24_TrackedStartsEmpty ==
    last.op = "track" => resources[last.id].allocated_periods = <<>>

\* C24, amended: right after track_resource(r) the resource tracked under r.id
\* holds exactly the intervals r held when it was passed in.
C24_TrackedKeepsIntervals ==
    [][last'.op = "track" =>
          resources'[last'.id].allocated_periods = loose[1].allocated_periods]_vars

\* A resource that already held an interval was tracked, and still holds it.
C24_Witness ==
    /\ last.op = "track"
    /\ resources[last.id].allocated_periods /= <<>>

\* C26 as stated: no step removes a tracked resource or an interval a tracked
\* resource holds.
C26_NothingRemoved ==
    [][\A k \in DOMAIN resources :
           /\ k \in DOMAIN resources'
           /\ Held(resources[k]) \subseteq Held(resources'[k])]_vars

\* C26, amended: no step removes a tracked id, and only track_resource called
\* with the id of an already tracked resource removes intervals (those of the
\* resource it replaces); allocations and queries remove none.
C26_OnlyRetrackRemoves ==
    [][\A k \in DOMAIN resources :
           /\ k \in DOMAIN resources'
           /\ ~(last'.op = "track" /\ last'.id = k)
                  => Held(resources[k]) \subseteq Held(resources'[k])]_vars

\* An allocation through the tracker went to a resource that held an interval
\* already, and the resource holds both.
C26_Witness ==
    /\ last.op = "allocate"
    /\ last.result.kind = "Some"
    /\ Len(resources[last.result.val].allocated_periods) = 2

\* C27: the outcome of allocate, the resource returned and the map afterwards,
\* is the same for every order in which the map hands out its entries; and
\* tracking two resources of different ids gives the same map in either order.
C27_AllocationDeterministic ==
    [][/\ last'.op = "allocate" =>
              \A entries \in iter_orders(resources) :
                  LET a == allocate_resource_of_type_for_period(
                               entries, resources, last'.rtype, last'.period)
                  IN  a.ret = last'.result /\ a.map = resources'
       /\ last'.op = "track" =>
              \A k \in DOMAIN resources \ {loose[1].id} :
                  track_resource(track_resource(<<>>, resources[k]), loose[1])
                      = track_resource(track_resource(<<>>, loose[1]), resources[k])]_vars

\* allocate returned resource 1 while resource 2, of the same type, was free
\* for the period as well.
C27_Witness ==
    /\ last.op = "allocate"
    /\ last.result = Some(1)
    /\ 2 \in DOMAIN resources
    /\ resources[2].resource_type = last.rtype
    /\ ~Busy(resources[2], last.period)

SortedByStart(ps) == \A i, j \in 1..Len(ps) : i < j => ps[i].start <= ps[j].start

\* C28: the intervals of every resource are stored in ascending order of
\* their starts.
C28_SortedByStart ==
    /\ \A k \in DOMAIN resources : SortedByStart(resources[k].allocated_periods)
    /\ loose /= <<>> => SortedByStart(loose[1].allocated_periods)

\* The interval allocated last starts before the one allocated earlier and is
\* stored in front of it.
C28_Witness ==
    /\ last.op = "res_allocate"
    /\ last.result = BoolR(TRUE)
    /\ Len(loose[1].allocated_periods) = 2
    /\ loose[1].allocated_periods[1] = last.period
    /\ loose[1].allocated_periods[1].start < loose[1].allocated_periods[2].start

(***************************************************************************)
(* Further properties of init and of rebuilding.                           *)
(***************************************************************************)
DeclaredIds == {declared[i].id : i \in 1..Len(declared)}

LastDeclared(id) ==
    declared[CHOOSE i \in 1..Len(declared) :
                 /\ declared[i].id = id
                 /\ \A j \in 1..Len(declared) : declared[j].id = id => j <= i]

\* C25: after init the tracker holds one resource per declared id, the one
\* declared last under that id, and none of them holds an interval.
C25_DeclaredTrackedUnallocated ==
    status = "ready" =>
        /\ DOMAIN resources = DeclaredIds
        /\ \A k \in DOMAIN resources :
               /\ resources[k] = LastDeclared(k)
               /\ resources[k].allocated_periods = <<>>

\* Init built recipes with phases and tracked two resources out of three
\* declarations, two of which share an id.
C25_Witness ==
    /\ status = "ready"
    /\ recipes /= <<>>
    /\ recipes[1].phases /= <<>>
    /\ Len(declared) = 3
    /\ Cardinality(DOMAIN resources) = 2
    /\ resources[1].resource_type = Keg

\* C29: a second init on an initialised schedule produces the graph the first
\* one produced and leaves the counter where the first one left it.
C29_InitIdempotent ==
    [][(status = "ready" /\ init_calls' = init_calls + 1 /\ status' = "ready")
           => recipes' = recipes /\ last_id_used' = last_id_used]_vars

\* Init ran twice on a schedule with a recipe of two phases.
C29_Witness ==
    /\ status = "ready"
    /\ init_calls = 2
    /\ \E i \in 1..Len(recipes) :
           /\ Len(recipes[i].phases) = 2
           /\ recipes[i].phases[1].dependencies = <<recipes[i].phases[2].id>>

ShiftedPhase(phase, n) ==
    [phase EXCEPT !.id = @ + n,
                  !.dependencies = [d \in 1..Len(@) |-> @[d] + n]]

\* C30: a rebuild from the same specs with the counter left at N by the first
\* run gives every recipe and phase the id it had plus N, shifts every
\* dependency by N, changes nothing else, and shares no id with the first
\* graph.  (A later rebuild shifts by the number of objects again.)
C30_RebuildShiftsIds ==
    [][(status = "ready" /\ init_calls' = init_calls
            /\ last_id_used' /= last_id_used) =>
          LET n == Cardinality(BuiltObjects)
          IN  /\ last_id_used >= 1
              /\ recipes[1].id = 1 => last_id_used = n
              /\ Len(recipes') = Len(recipes)
              /\ \A i \in 1..Len(recipes) :
                     /\ recipes'[i].id = recipes[i].id + n
                     /\ recipes'[i].start_date = recipes[i].start_date
                     /\ recipes'[i].phases =
                            [k \in 1..Len(recipes[i].phases) |->
                                ShiftedPhase(recipes[i].phases[k], n)]
              /\ \A i, j \in 1..Len(recipes) :
                     AllIds(recipes[i]) \cap AllIds(recipes'[j]) = {}]_vars

\* The graph was rebuilt once on the live counter: its ids start after those
\* of the first run, and a phase depends on a shifted id.
C30_Witness ==
    /\ status = "ready"
    /\ recipes /= <<>>
    /\ last_id_used = 2 * Cardinality(BuiltObjects)
    /\ recipes[1].id = Cardinality(BuiltObjects) + 1
    /\ \E i \in 1..Len(recipes) :
           /\ Len(recipes[i].phases) = 2
           /\ recipes[i].phases[1].dependencies = <<recipes[i].phases[2].id>>

(***************************************************************************)
(* Properties of PhaseInstance::add_dependency.                            *)
(***************************************************************************)
\* C31: after any sequence of add_dependency calls the dependency list is
\* strictly ascending (so it has no duplicates) and holds exactly the ids
\* that were added.  The list is therefore the one ascending listing of the
\* set of ids added: adding an id that is already present leaves it as it
\* was, and the order of the calls does not matter.
C31_DependenciesAscendingSet ==
    phase_instance /= Pending =>
        LET deps == phase_instance.dependencies
        IN  /\ \A i \in 1..Len(deps) - 1 : deps[i] < deps[i + 1]
            /\ {deps[i] : i \in 1..Len(deps)} = {added[i] : i \in 1..Len(added)}

\* An id was added twice and two ids were added in descending order; the
\* list is still the ascending listing of the three ids.
C31_Witness ==
    /\ phase_instance /= Pending
    /\ \E i, j \in 1..Len(added) : i < j /\ added[i] = added[j]
    /\ \E i, j \in 1..Len(added) : i < j /\ added[i] > added[j]
    /\ phase_instance.dependencies = <<1, 2, 3>>

(***************************************************************************)
(* Properties of the ResourceType conversions.                             *)
(***************************************************************************)
NamedTags == {serialize(t) : t \in NamedTypes}
RoundTripDone == serde /= Pending /\ serde.input.kind = "type" /\ serde.output.kind = "type"

\* C32 (as stated): serializing any ResourceType value, Other(label) for
\* every label included, and converting the tag back yields the value again.
C32_RoundTripEveryValue ==
    RoundTripDone => serde.output.val = serde.input.val

\* C32 (amended): the round trip yields the value again for the seven named
\* variants and for Other(label) when the label is not one of the seven
\* tags; Other(label) with one of the seven tags as its label comes back as
\* the named variant of that tag.
C32_RoundTripUnlessLabelIsTag ==
    RoundTripDone =>
        LET t == serde.input.val
        IN  IF t \in NamedTypes \/ t[2] \notin NamedTags
            THEN serde.output.val = t
            ELSE /\ serde.output.val \in NamedTypes
                 /\ serialize(serde.output.val) = t[2]
                 /\ serde.output.val /= t

\* Other("fancythingy"), the value of the test, went to its tag and back;
\* and so did a value whose label differs from a tag by case only.
C32_Witness ==
    /\ RoundTripDone
    /\ serde.input.val \in {Other("fancythingy"), Other("Keg")}
    /\ serde.mid = TagV(serde.input.val[2])
    /\ serde.output.val = serde.input.val

(***************************************************************************)
(* Properties of the rendering.  The outline of a text is the sequence of  *)
(* its recipe headers, child lines, phase headers and dep lines, each with *)
(* the id it shows.                                                        *)
(***************************************************************************)
OutlineKeys == {"recipe", "child", "phase", "dep"}
IsOutlineToken(t) == t.key \in OutlineKeys
Outline(text) ==
    LET sel == SelectSeq(text, IsOutlineToken)
    IN  [n \in 1..Len(sel) |->
            <<sel[n].key, IF sel[n].key = "phase" THEN sel[n].val[1] ELSE sel[n].val>>]

RECURSIVE Flatten(_)
Flatten(seqs) ==
    IF Len(seqs) = 0 THEN <<>>
    ELSE Flatten(SubSeq(seqs, 1, Len(seqs) - 1)) \o seqs[Len(seqs)]

PhaseOutline(ph) ==
    <<<<"phase", ph.id>>>>
    \o [d \in 1..Len(ph.dependencies) |-> <<"dep", ph.dependencies[d]>>]
RecipeOutline(r) ==
    <<<<"recipe", r.id>>>>
    \o [k \in 1..Len(r.phases) |-> <<"child", r.phases[k].id>>]
    \o Flatten([k \in 1..Len(r.phases) |-> PhaseOutline(r.phases[k])])
DepLinesAscending(o) ==
    \A n \in 1..Len(o) - 1 :
        (o[n][1] = "dep" /\ o[n + 1][1] = "dep") => o[n][2] < o[n + 1][2]

\* C33: a rendered schedule lists, recipe by recipe in the order of the
\* recipe list, the header, one child line per phase in the order of the
\* phase list, then one block per phase in that order; a phase block (of a
\* schedule or rendered on its own) shows one dep line per dependency, in
\* ascending id order, and none for a phase without dependencies.
C33_RenderOrder ==
    [][(rendered' /= rendered /\ rendered'.out.kind = "Some") =>
          LET o == Outline(rendered'.out.val)
          IN  /\ DepLinesAscending(o)
              /\ rendered'.of = "schedule" =>
                     o = Flatten([i \in 1..Len(recipes) |-> RecipeOutline(recipes[i])])
              /\ rendered'.of = "phase" => o = PhaseOutline(phase_instance)]_vars

\* A schedule of two recipes of two phases each was rendered: four child
\* lines, and a dep line in the first block of each recipe only.
C33_Witness ==
    /\ rendered /= Pending
    /\ rendered.of = "schedule"
    /\ rendered.out.kind = "Some"
    /\ Len(recipes) = 2
    /\ \A i \in 1..2 : Len(recipes[i].phases) = 2
    /\ LET o == Outline(rendered.out.val)
       IN  /\ Cardinality({n \in 1..Len(o) : o[n][1] = "child"}) = 4
           /\ Cardinality({n \in 1..Len(o) : o[n][1] = "dep"}) = 2

\* C39 (as stated): rendering an initialised schedule, one without recipes
\* included, returns the concatenation of the recipe and phase blocks with
\* exactly its final newline removed.
C39_RenderAlwaysReturns ==
    [][(rendered' /= rendered /\ rendered'.of = "schedule") =>
          /\ rendered'.out.kind = "Some"
          /\ rendered'.out.val \o <<Newline>> = final_pla(recipes)]_vars

(***************************************************************************)
(* Further properties of the resource tracker.                             *)
(***************************************************************************)
EarliestCalls == {"res_earliest", "next_available"}

\* C34: get_earliest_free_date_for_period does not abort, called directly or
\* through the tracker, for resources whose intervals all came from allocate
\* calls with non-negative durations: when the period is busy, the scan finds
\* an acceptable candidate.
C34_EarliestNeverAborts ==
    last.op \in EarliestCalls => last.result /= PanicR

\* The resource holds two intervals, the query period is busy, the first
\* interval passed the end test but its candidate was busy, and the scan
\* went on to the candidate of the second.
C34_Witness ==
    /\ last.op = "res_earliest"
    /\ Len(loose[1].allocated_periods) = 2
    /\ Busy(loose[1], last.period)
    /\ loose[1].allocated_periods[1].end >= last.period.start
    /\ last.result = Some(loose[1].allocated_periods[2].end + OneSecond)

WholeSecond(t) == t % TicksPerSecond = 0
WholePeriod(p) == WholeSecond(p.start) /\ WholeSecond(p.end)

\* C35: when the held intervals and the query period lie on whole seconds,
\* the instant t returned by get_earliest_free_date_for_period is not before
\* period.start, the period moved to t intersects nothing held, and the
\* period moved to any whole second from period.start up to t (t excluded)
\* intersects something held.
C35_TrueEarliestOnWholeSeconds ==
    (/\ last.op = "res_earliest"
     /\ WholePeriod(last.period)
     /\ \A h \in Held(loose[1]) : WholePeriod(h)) =>
        /\ last.result.kind = "Some"
        /\ LET t == last.result.val
           IN  /\ t >= last.period.start
               /\ ~Busy(loose[1], Shifted(last.period, t))
               /\ \A u \in last.period.start..(t - 1) :
                      WholeSecond(u) => Busy(loose[1], Shifted(last.period, u))

\* Two whole-second intervals are held one second apart, and the date
\* returned is two seconds after the desired start.
C35_Witness ==
    /\ last.op = "res_earliest"
    /\ WholePeriod(last.period)
    /\ Len(loose[1].allocated_periods) = 2
    /\ \A h \in Held(loose[1]) : WholePeriod(h)
    /\ last.result = Some(last.period.start + 2 * OneSecond)

\* C36: when a resource of the type is tracked,
\* get_next_available_resource_date_for_type_over_period returns a date d;
\* is_resource_of_type_free_for_period is true for the period moved to d, and
\* an allocate of the type for that moved period, made next, returns a
\* resource whatever order the map is iterated in.
C36_NextAvailableIsAllocatable ==
    (last.op = "next_available" /\ OfType(resources, last.rtype) /= {}) =>
        /\ last.result.kind = "Some"
        /\ LET moved == Shifted(last.period, last.result.val)
           IN  /\ is_resource_of_type_free_for_period(resources, last.rtype, moved)
               /\ \A entries \in iter_orders(resources) :
                      allocate_resource_of_type_for_period(
                          entries, resources, last.rtype, moved).ret.kind = "Some"

\* Two resources of the type are tracked, both busy over the period, and the
\* date returned is later than the desired start.
C36_Witness ==
    /\ last.op = "next_available"
    /\ Cardinality(OfType(resources, last.rtype)) = 2
    /\ \A k \in OfType(resources, last.rtype) : Busy(resources[k], last.period)
    /\ last.result.kind = "Some"
    /\ last.result.val > last.period.start

Queries == {"is_free", "next_available", "res_earliest", "res_is_allocated"}

\* The sequence `after` is `before` with x inserted at one position.
InsertedOnce(before, after, x) ==
    \E pos \in 1..Len(after) :
        /\ after[pos] = x
        /\ before = SubSeq(after, 1, pos - 1) \o SubSeq(after, pos + 1, Len(after))

\* C37: an allocate that returns a resource adds the period, once, to the
\* list of the returned resource, which is tracked and of the requested
\* type; every other tracked resource, the set of tracked ids and the
\* client's own resource stay as they were.  The queries change no resource.
C37_AllocateFrame ==
    [][/\ (last'.op = "allocate" /\ last'.result.kind = "Some") =>
             LET k == last'.result.val
             IN  /\ k \in DOMAIN resources
                 /\ DOMAIN resources' = DOMAIN resources
                 /\ resources[k].resource_type = last'.rtype
                 /\ resources'[k] =
                        [resources[k] EXCEPT
                            !.allocated_periods = resources'[k].allocated_periods]
                 /\ InsertedOnce(resources[k].allocated_periods,
                                 resources'[k].allocated_periods, last'.period)
                 /\ \A j \in DOMAIN resources \ {k} : resources'[j] = resources[j]
                 /\ loose' = loose
       /\ last'.op \in Queries => (resources' = resources /\ loose' = loose)]_vars

\* An allocate returned resource 1, which now holds two intervals, while
\* resource 2, of the same type and free for the period, holds none.
C37_Witness ==
    /\ last.op = "allocate"
    /\ last.result = Some(1)
    /\ Len(resources[1].allocated_periods) = 2
    /\ 2 \in OfType(resources, last.rtype)
    /\ resources[2].allocated_periods = <<>>

Holders(map, rtype, p) == {k \in OfType(map, rtype) : p \in Held(map[k])}
OnlyPeriod(map, rtype, p) == \A k \in OfType(map, rtype) : Held(map[k]) \subseteq {p}
LowestFirst(map, rtype, p) ==
    \A a \in Holders(map, rtype, p), b \in OfType(map, rtype) \ Holders(map, rtype, p) :
        a < b

\* C38: while the resources of a type hold nothing but the period p, and
\* those that hold it are the lowest ids of the type (as after any number of
\* allocate calls for p on resources tracked without allocations), the next
\* allocate for p returns the lowest id of the type not yet holding p, and
\* None once all k of them hold it; the holders grow by exactly the returned
\* resource, so n calls succeed min(n, k) times in ascending id order and at
\* most k resources ever hold p.
C38_FirstFitAscending ==
    [][(/\ last'.op = "allocate"
        /\ OnlyPeriod(resources, last'.rtype, last'.period)
        /\ LowestFirst(resources, last'.rtype, last'.period)) =>
          LET all == OfType(resources, last'.rtype)
              rest == all \ Holders(resources, last'.rtype, last'.period)
              after == Holders(resources', last'.rtype, last'.period)
          IN  /\ OfType(resources', last'.rtype) = all
              /\ OnlyPeriod(resources', last'.rtype, last'.period)
              /\ LowestFirst(resources', last'.rtype, last'.period)
              /\ Cardinality(after) <= Cardinality(all)
              /\ IF rest = {}
                 THEN last'.result = NoneR /\ resources' = resources
                 ELSE /\ last'.result = Some(MinOf(rest))
                      /\ after = (all \ rest) \cup {MinOf(rest)}]_vars

\* The second of two allocate calls for one period returned resource 2:
\* both resources of the type hold exactly that period.
C38_Witness ==
    /\ last.op = "allocate"
    /\ last.result = Some(2)
    /\ OfType(resources, last.rtype) = {1, 2}
    /\ \A k \in {1, 2} : resources[k].allocated_periods = <<last.period>>

====
